---- MODULE Spec2Model ----
(***************************************************************************)
(* evtc (programs/evtc/main.cpp): the command line client of the ledger    *)
(* node (evtd) and of the wallet service (evtwd).  The model follows one   *)
(* process invocation: main parses the command line, runs the callback of  *)
(* the chosen subcommand, and the callback runs the transaction pipeline   *)
(* push_transaction / sign_transaction, one blocking remote call per step. *)
(* The two remote services are the environment: every remote call either   *)
(* returns, cannot connect, or is answered with an error, and the chain    *)
(* and the wallet may change between two calls.                            *)
(*                                                                         *)
(* Four specifications share the variables and the pipeline's actions:     *)
(*   Spec, FairSpec  the pipeline under every combination of -s, -d, -r    *)
(*                   and of the two urls, for account create and get info; *)
(*   ExpirySpec      the pipeline for the values of -x;                    *)
(*   CommandSpec     the callbacks of the structured commands, of get      *)
(*                   group, of sign and of the two push commands, over     *)
(*                   their option strings, documents and files, with the   *)
(*                   pipeline run without its signer (-s).                 *)
(*   QuerySpec       the callbacks of the eight read-only queries, with    *)
(*                   the chain advancing between the two calls of get      *)
(*                   transactions.                                         *)
(***************************************************************************)
EXTENDS Integers, Sequences, FiniteSets, TLC

VARIABLES
    pc,                      \* position of the process
    cmd, args,               \* the subcommand parsed and its option values
    url, wallet_url,         \* ::url, ::wallet_url
    tx_expiration,           \* seconds
    tx_ref_block_num_or_id,  \* <<>> is the empty string
    tx_dont_broadcast,
    tx_skip_sign,
    trx,                     \* the signed_transaction of push_actions
    info,                    \* push_transaction's local: get_info_results
    public_keys,             \* sign_transaction's local
    required_keys,           \* sign_transaction's local
    calls,                   \* remote calls issued so far, in order
    exc,                     \* the exception in flight, [type, arg]
    err,                     \* std::cerr, a sequence of lines
    out,                     \* std::cout, a sequence of values
    exit_status,             \* -1 while the process runs
    head, lib,               \* ledger node: head block and last irreversible block
    walletKeys               \* wallet service: keys of the unlocked wallets

config == <<cmd, args, url, wallet_url, tx_expiration, tx_ref_block_num_or_id,
            tx_dont_broadcast, tx_skip_sign>>
locals == <<trx, info, public_keys, required_keys>>
io     == <<calls, exc, err, out, exit_status>>
remote == <<head, lib, walletKeys>>
vars   == <<pc, config, locals, io, remote>>

(* Bounds of the model. *)
MaxKey == 2
MaxBlock == 2

(* string url = "http://localhost:8888"; string wallet_url = "http://localhost:9999"; *)
DefaultUrl == "http://localhost:8888"
DefaultWalletUrl == "http://localhost:9999"
(* auto tx_expiration = fc::seconds(30); *)
DefaultExpiration == 30

Keys == 1..MaxKey
BlockNums == 1..MaxBlock
EmptyString == <<>>

(* A block id, as get_block reports it for block number n. *)
BlockId(n) == <<"id", n>>
NullBlockId == <<>>
(* head_block_time of a chain whose head is block n, in seconds. *)
BlockTime(n) == 100 + n

(* What a caller can pass to -r: a block number or a block id; the node     *)
(* knows the blocks up to its head.                                         *)
RefArgs == {<<"num", n>> : n \in BlockNums} \cup {BlockId(n) : n \in BlockNums}

(* signed_transaction trx; (default constructed) *)
NewTrx == [expiration |-> 0, ref_block |-> NullBlockId, actions |-> <<>>,
           signatures |-> {}]
NoInfo == [head_block_time |-> 0, head_block_id |-> NullBlockId,
           last_irreversible_block_num |-> 0]
NoException == [type |-> "none", arg |-> EmptyString]

(* How a remote call ends: it returns, the connection fails                 *)
(* (boost::system::system_error), or the service answers with an error      *)
(* (fc::exception out of evt::client::http::call).                          *)
Outcomes == {"ok", "unreachable", "error"}

Init ==
    /\ pc = "main"
    /\ cmd = "none"
    /\ args = [name |-> EmptyString]
    /\ url = DefaultUrl
    /\ wallet_url = DefaultWalletUrl
    /\ tx_expiration = DefaultExpiration
    /\ tx_ref_block_num_or_id = EmptyString
    /\ tx_dont_broadcast = FALSE
    /\ tx_skip_sign = FALSE
    /\ trx = NewTrx
    /\ info = NoInfo
    /\ public_keys = {}
    /\ required_keys = {}
    /\ calls = <<>>
    /\ exc = NoException
    /\ err = <<>>
    /\ out = <<>>
    /\ exit_status = -1
    /\ head \in BlockNums
    /\ lib \in 1..head
    /\ walletKeys \in SUBSET Keys

(***************************************************************************)
(* The remote services, at their boundary.                                 *)
(***************************************************************************)

(* get_info's answer of a node whose head is h and last irreversible l. *)
NodeInfo(h, l) == [head_block_time |-> BlockTime(h), head_block_id |-> BlockId(h),
                   last_irreversible_block_num |-> l]

(* get_block: the node knows the blocks 1..head, by number or by id. *)
NodeKnowsBlock(a) == a \in RefArgs /\ a[2] <= head
NodeBlock(a) == [id |-> BlockId(a[2])]

(* push_transaction's answer: the node's receipt of what it was sent. *)
NodeReceipt(packed) == [processed |-> packed]

(* wallet sign_transaction: the transaction it was given, signed with those *)
(* of the requested keys the unlocked wallets hold when the call arrives.   *)
WalletSigned(t, keys) == [t EXCEPT !.signatures = keys \cap walletKeys]

(***************************************************************************)
(* call (lines 88-106)                                                     *)
(***************************************************************************)

(* catch(boost::system::system_error&): the hint printed for the url. *)
ConnectHint(u) ==
    IF u = url THEN <<"Failed to connect to evtd">>
    ELSE IF u = wallet_url THEN <<"Failed to connect to evtwd">>
    ELSE <<>>

(* What call throws for an outcome that is not "ok". *)
CallException(o) ==
    IF o = "unreachable" THEN [type |-> "connection_exception", arg |-> EmptyString]
    ELSE [type |-> "fc_exception", arg |-> EmptyString]

(* What call writes to std::cerr. *)
CallErr(u, o) == IF o = "unreachable" THEN err \o ConnectHint(u) ELSE err

(* A variant of CallThrows that issues the call a second time when it fails, *)
(* and throws when the second attempt fails as well.                         *)
CallThrows_RetriesOnce(u, o) ==
    IF calls = <<>> \/ calls[Len(calls)].ok
    THEN /\ exc' = exc
         /\ err' = err
         /\ pc' = pc
    ELSE /\ exc' = CallException(o)
         /\ err' = CallErr(u, o)
         /\ pc' = "catch"

(* call's catch clause and throw: the exception leaves for main's try statement. *)
CallThrows(u, o) ==
    /\ exc' = CallException(o)
    /\ err' = CallErr(u, o)
    /\ pc' = "catch"

(* The record of one remote call in the log. *)
Called(u, path, arg, o, ret) ==
    Append(calls, [url |-> u, path |-> path, arg |-> arg, ok |-> (o = "ok"),
                   outcome |-> o, ret |-> IF o = "ok" THEN ret ELSE <<>>])

(* (transaction)trx: the slice without the signatures. *)
AsTransaction(t) == [expiration |-> t.expiration, ref_block |-> t.ref_block,
                     actions |-> t.actions]

(* packed_transaction(trx, compression) *)
Packed(t, compression) == [compression |-> compression, trx |-> t]

(***************************************************************************)
(* main: parsing the command line (line 851)                               *)
(***************************************************************************)
Commands == {"get_info", "account_create"}
(* the subcommands that add_standard_transaction_options is called for *)
TransactionCommands ==
    {"domain_create", "domain_update", "token_issue", "token_transfer",
     "group_create", "group_update", "account_create", "account_transfer",
     "account_update"}
(* values of -u and of --wallet-url: the services at two addresses, or both *)
(* options naming the same address                                           *)
NodeUrls == {DefaultUrl}
WalletUrls == {DefaultWalletUrl, DefaultUrl}
NameArgs == {<<"a">>}

CommandArgs(c) ==
    IF c = "account_create" THEN [name : NameArgs, owner : {<<<<"PUB1">>>>}]
    ELSE {args}

Parse ==
    /\ pc = "main"
    /\ \E c \in Commands, u \in NodeUrls, w \in WalletUrls :
          /\ cmd' = c
          /\ url' = u
          /\ wallet_url' = w
          /\ args' \in CommandArgs(c)
          /\ IF c \in TransactionCommands
             THEN /\ tx_skip_sign' \in BOOLEAN
                  /\ tx_dont_broadcast' \in BOOLEAN
                  /\ tx_ref_block_num_or_id' \in RefArgs \cup {EmptyString}
             ELSE UNCHANGED <<tx_skip_sign, tx_dont_broadcast, tx_ref_block_num_or_id>>
    /\ pc' = "callback"
    /\ UNCHANGED <<tx_expiration, locals, io, remote>>

(***************************************************************************)
(* get info (lines 572-574), get_info (lines 108-110)                      *)
(***************************************************************************)
get_info_callback ==
    /\ pc = "callback" /\ cmd = "get_info"
    /\ \E o \in Outcomes :
          /\ calls' = Called(url, "get_info", <<>>, o, NodeInfo(head, lib))
          /\ IF o = "ok"
             THEN /\ out' = Append(out, NodeInfo(head, lib))
                  /\ pc' = "return"
                  /\ UNCHANGED <<exc, err>>
             ELSE /\ CallThrows(url, o)
                  /\ UNCHANGED out
    /\ UNCHANGED <<config, locals, exit_status, remote>>

(***************************************************************************)
(* The values the callbacks build from their option strings.  A string is  *)
(* a tuple of tokens; the types of the chain library are kept as tagged    *)
(* values, so that a converted string is not the string itself.            *)
(***************************************************************************)
name128(str) == <<"name128", str>>
N128(word) == name128(<<word>>)
public_key_type(str) == <<"public_key", str>>
(* public_key_type(): the default constructed key *)
ZeroKey == public_key_type(EmptyString)
asset_from_string(str) == <<"asset", str>>
group_id_from_string(str) == <<"group_id", "base58", str>>
group_id_from_group_key(k) == <<"group_id", "key", k>>
to_base58(gid) == <<"base58", gid>>

(***************************************************************************)
(* create_action (lines 169-172), push_actions (lines 154-159)             *)
(***************************************************************************)

(* A variant of create_action that addresses every action by the one key. *)
create_action_ConstantKey(domain, key, value) ==
    [domain |-> domain, key |-> N128("key"), data |-> value]

(* A variant of create_action that addresses the action by its domain. *)
create_action_KeyIsDomain(domain, key, value) ==
    [domain |-> domain, key |-> domain, data |-> value]

create_action(domain, key, value) == [domain |-> domain, key |-> key, data |-> value]

push_actions(actions) == [NewTrx EXCEPT !.actions = actions]

(* A callback hands its one action to send_actions, or throws. *)
SendsAction(act) ==
    /\ trx' = push_actions(<<act>>)
    /\ pc' = "get_info"
    /\ UNCHANGED <<exc, err>>

Throws(type) ==
    /\ exc' = [type |-> type, arg |-> EmptyString]
    /\ pc' = "catch"
    /\ UNCHANGED <<trx, err>>

(***************************************************************************)
(* account create (lines 407-414)                                          *)
(***************************************************************************)
account_create_callback ==
    /\ pc = "callback" /\ cmd = "account_create"
    /\ LET na == [name |-> name128(args.name),
                  owner |-> [i \in DOMAIN args.owner |-> public_key_type(args.owner[i])]]
       IN  SendsAction(create_action(N128("account"), na.name, na))
    /\ UNCHANGED <<config, info, public_keys, required_keys, calls, out,
                   exit_status, remote>>

(***************************************************************************)
(* push_transaction (lines 125-152)                                        *)
(***************************************************************************)

(* lines 126-128: get_info, expiration, set_reference_block(head_block_id) *)
push_transaction_get_info ==
    /\ pc = "get_info"
    /\ \E o \in Outcomes :
          /\ calls' = Called(url, "get_info", <<>>, o, NodeInfo(head, lib))
          /\ IF o = "ok"
             THEN /\ info' = NodeInfo(head, lib)
                  /\ trx' = [trx EXCEPT
                               !.expiration = NodeInfo(head, lib).head_block_time
                                              + tx_expiration,
                               !.ref_block = NodeInfo(head, lib).head_block_id]
                  /\ pc' = "get_block"
                  /\ UNCHANGED <<exc, err>>
             ELSE /\ CallThrows(url, o)
                  /\ UNCHANGED <<info, trx>>
    /\ UNCHANGED <<config, public_keys, required_keys, out, exit_status, remote>>

(* A variant of RefBlockArg that ignores the caller's reference block. *)
RefBlockArg_IgnoresOverride == <<"num", info.last_irreversible_block_num>>

(* lines 134-138: the argument of get_block *)
RefBlockArg ==
    IF tx_ref_block_num_or_id # EmptyString
    THEN tx_ref_block_num_or_id
    ELSE <<"num", info.last_irreversible_block_num>>

(* A variant of RefBlockException that lets the exception of the try block pass. *)
RefBlockException_Passes(e) == e

(* line 140: whatever the try block throws leaves as invalid_ref_block_exception, *)
(* its message formatted with tx_ref_block_num_or_id                              *)
RefBlockException(e) ==
    [type |-> "invalid_ref_block_exception", arg |-> tx_ref_block_num_or_id]

(* A variant of AfterAssembly that leaves the signer out whatever the flag says. *)
AfterAssembly_SkipsSigner == "broadcast"

(* A variant of AfterAssembly that signs whatever the flag says. *)
AfterAssembly_AlwaysSigns == "list_keys"

(* line 143: the step that follows the assembly *)
AfterAssembly == IF ~tx_skip_sign THEN "list_keys" ELSE "broadcast"

(* lines 131-141: the reference block; a block the node does not know is   *)
(* answered with an error                                                  *)
push_transaction_get_block ==
    /\ pc = "get_block"
    /\ \E o0 \in Outcomes :
          LET o == IF o0 = "ok" /\ ~NodeKnowsBlock(RefBlockArg) THEN "error" ELSE o0
          IN  /\ calls' = Called(url, "get_block", RefBlockArg, o,
                                 NodeBlock(RefBlockArg))
              /\ IF o = "ok"
                 THEN /\ trx' = [trx EXCEPT !.ref_block = NodeBlock(RefBlockArg).id]
                      /\ pc' = AfterAssembly
                      /\ UNCHANGED <<exc, err>>
                 ELSE /\ exc' = RefBlockException(CallException(o))
                      /\ err' = CallErr(url, o)
                      /\ pc' = "catch"
                      /\ UNCHANGED trx
    /\ UNCHANGED <<config, info, public_keys, required_keys, out, exit_status, remote>>

(***************************************************************************)
(* sign_transaction (lines 112-123)                                        *)
(***************************************************************************)

(* line 114 *)
sign_transaction_public_keys ==
    /\ pc = "list_keys"
    /\ \E o \in Outcomes :
          /\ calls' = Called(wallet_url, "wallet_public_keys", <<>>, o, walletKeys)
          /\ IF o = "ok"
             THEN /\ public_keys' = walletKeys
                  /\ pc' = "required_keys"
                  /\ UNCHANGED <<exc, err>>
             ELSE /\ CallThrows(wallet_url, o)
                  /\ UNCHANGED public_keys
    /\ UNCHANGED <<config, trx, info, required_keys, out, exit_status, remote>>

(* lines 115-117: get_arg *)
RequiredKeysArg ==
    [transaction |-> AsTransaction(trx), available_keys |-> public_keys]

(* line 118; the node answers with a subset of the available keys *)
sign_transaction_required_keys ==
    /\ pc = "required_keys"
    /\ \E o \in Outcomes, rk \in SUBSET public_keys :
          /\ calls' = Called(url, "get_required_keys", RequiredKeysArg, o,
                             [required_keys |-> rk])
          /\ IF o = "ok"
             THEN /\ required_keys' = rk
                  /\ pc' = "wallet_sign"
                  /\ UNCHANGED <<exc, err>>
             ELSE /\ CallThrows(url, o)
                  /\ UNCHANGED required_keys
    /\ UNCHANGED <<config, trx, info, public_keys, out, exit_status, remote>>

(* A variant of SignArgs that asks the wallet to sign with every key it listed. *)
SignArgs_AllKeys == [trx |-> trx, keys |-> public_keys, chain_id |-> "chain_id_type{}"]

(* line 120: sign_args (chain_id_type{} is the third) *)
SignArgs == [trx |-> trx, keys |-> required_keys, chain_id |-> "chain_id_type{}"]

(* line 122: trx = signed_trx.as<signed_transaction>() *)
AcceptSigned(signed_trx) == signed_trx

(* A variant of sign_transaction_sign that goes on with the unsigned transaction *)
(* when the wallet's signing call fails.                                          *)
sign_transaction_sign_Swallows ==
    /\ pc = "wallet_sign"
    /\ \E o \in Outcomes :
          /\ calls' = Called(wallet_url, "wallet_sign_trx", SignArgs, o,
                             WalletSigned(SignArgs.trx, SignArgs.keys))
          /\ trx' = IF o = "ok"
                    THEN AcceptSigned(WalletSigned(SignArgs.trx, SignArgs.keys))
                    ELSE trx
          /\ pc' = "broadcast"
          /\ UNCHANGED <<exc, err>>
    /\ UNCHANGED <<config, info, public_keys, required_keys, out, exit_status, remote>>

(* A variant of sign_transaction_sign that marks the transaction with the   *)
(* keys it asked for before the wallet has answered.                        *)
sign_transaction_sign_MarksFirst ==
    /\ pc = "wallet_sign"
    /\ \E o \in Outcomes :
          /\ calls' = Called(wallet_url, "wallet_sign_trx", SignArgs, o,
                             WalletSigned(SignArgs.trx, SignArgs.keys))
          /\ IF o = "ok"
             THEN /\ trx' = AcceptSigned(WalletSigned(SignArgs.trx, SignArgs.keys))
                  /\ pc' = "broadcast"
                  /\ UNCHANGED <<exc, err>>
             ELSE /\ CallThrows(wallet_url, o)
                  /\ trx' = [trx EXCEPT !.signatures = required_keys]
    /\ UNCHANGED <<config, info, public_keys, required_keys, out, exit_status, remote>>

(* lines 120-122 *)
sign_transaction_sign ==
    /\ pc = "wallet_sign"
    /\ \E o \in Outcomes :
          /\ calls' = Called(wallet_url, "wallet_sign_trx", SignArgs, o,
                             WalletSigned(SignArgs.trx, SignArgs.keys))
          /\ IF o = "ok"
             THEN /\ trx' = AcceptSigned(WalletSigned(SignArgs.trx, SignArgs.keys))
                  /\ pc' = "broadcast"
                  /\ UNCHANGED <<exc, err>>
             ELSE /\ CallThrows(wallet_url, o)
                  /\ UNCHANGED trx
    /\ UNCHANGED <<config, info, public_keys, required_keys, out, exit_status, remote>>

(***************************************************************************)
(* push_transaction, lines 147-151, and send_actions (lines 161-163)       *)
(***************************************************************************)

(* A variant of Broadcasts that submits whatever the flag says. *)
Broadcasts_Always == TRUE

(* line 147 *)
Broadcasts == ~tx_dont_broadcast

(* A variant of push_transaction_broadcast that prints the transaction      *)
(* before it submits it, whatever the node then answers.                    *)
push_transaction_broadcast_PrintsFirst ==
    /\ pc = "broadcast"
    /\ IF Broadcasts
       THEN \E o \in Outcomes :
              /\ calls' = Called(url, "push_transaction", Packed(trx, "none"), o,
                                 NodeReceipt(Packed(trx, "none")))
              /\ out' = Append(out, trx)
              /\ IF o = "ok"
                 THEN /\ pc' = "return"
                      /\ UNCHANGED <<exc, err>>
                 ELSE CallThrows(url, o)
       ELSE /\ out' = Append(out, trx)
            /\ pc' = "return"
            /\ UNCHANGED <<calls, exc, err>>
    /\ UNCHANGED <<config, locals, exit_status, remote>>

(* lines 147-151, and the print of send_actions (line 163) *)
push_transaction_broadcast ==
    /\ pc = "broadcast"
    /\ IF Broadcasts
       THEN \E o \in Outcomes :
              /\ calls' = Called(url, "push_transaction", Packed(trx, "none"), o,
                                 NodeReceipt(Packed(trx, "none")))
              /\ IF o = "ok"
                 THEN /\ out' = Append(out, NodeReceipt(Packed(trx, "none")))
                      /\ pc' = "return"
                      /\ UNCHANGED <<exc, err>>
                 ELSE /\ CallThrows(url, o)
                      /\ UNCHANGED out
       ELSE /\ out' = Append(out, trx)
            /\ pc' = "return"
            /\ UNCHANGED <<calls, exc, err>>
    /\ UNCHANGED <<config, locals, exit_status, remote>>

(***************************************************************************)
(* main, lines 850-871                                                     *)
(***************************************************************************)

(* The status main returns for an exception of app.parse: explained_exception *)
(* returns 1, connection_exception leaves the try statement, every other      *)
(* fc::exception returns 1; line 870 returns 0.                               *)
ExitStatus(type) ==
    IF type = "explained_exception" THEN 1
    ELSE IF type = "connection_exception" THEN 0
    ELSE 1

main_catch ==
    /\ pc = "catch"
    /\ exit_status' = ExitStatus(exc.type)
    /\ pc' = "done"
    /\ UNCHANGED <<config, locals, calls, exc, err, out, remote>>

main_return ==
    /\ pc = "return"
    /\ exit_status' = 0
    /\ pc' = "done"
    /\ UNCHANGED <<config, locals, calls, exc, err, out, remote>>

(***************************************************************************)
(* The environment: the services change between two calls of the process.  *)
(* A change is modelled where the process can observe it: the chain        *)
(* between get_info and get_block and between the two calls of get         *)
(* transactions, the wallet between its key listing and its signing.       *)
(***************************************************************************)
NodeAdvance ==
    /\ pc \in {"get_block", "get_transactions"}
    /\ head < MaxBlock
    /\ head' = head + 1
    /\ lib' \in lib..(head + 1)
    /\ UNCHANGED <<pc, config, locals, io, walletKeys>>

WalletChange ==
    /\ pc \in {"required_keys", "wallet_sign"}
    /\ walletKeys' \in (SUBSET Keys) \ {walletKeys}
    /\ UNCHANGED <<pc, config, locals, io, head, lib>>

Step ==
    \/ Parse
    \/ get_info_callback
    \/ account_create_callback
    \/ push_transaction_get_info
    \/ push_transaction_get_block
    \/ sign_transaction_public_keys
    \/ sign_transaction_required_keys
    \/ sign_transaction_sign
    \/ push_transaction_broadcast
    \/ main_catch
    \/ main_return

Next ==
    \/ Parse
    \/ get_info_callback
    \/ account_create_callback
    \/ push_transaction_get_info
    \/ push_transaction_get_block
    \/ sign_transaction_public_keys
    \/ sign_transaction_required_keys
    \/ sign_transaction_sign
    \/ push_transaction_broadcast
    \/ main_catch
    \/ main_return
    \/ NodeAdvance
    \/ WalletChange

Spec == Init /\ [][Next]_vars

(* The process is scheduled and every remote call returns or fails. *)
FairSpec == Spec /\ WF_vars(Step)

(***************************************************************************)
(* add_standard_transaction_options, parse_expiration (lines 71-86): the   *)
(* runs of a transaction command given -x.                                 *)
(***************************************************************************)

(* Values of -x as boost::lexical_cast reads them into double value_s, in   *)
(* tenths of a second: 0, 1.5, 45, -0.5 and -2 seconds.                     *)
ExpirationArgs == {0, 15, 450, -5, -20}

(* The integral part of value_s: a conversion of double to an integer type  *)
(* truncates toward zero.                                                   *)
Truncated(value_s) ==
    IF value_s >= 0 THEN value_s \div 10 ELSE 0 - ((0 - value_s) \div 10)

(* line 78, fc::seconds(static_cast<uint64_t>(value_s)): the seconds that    *)
(* fc::seconds receives.  The conversion is defined when the truncated value *)
(* is one of uint64_t.  For a value below zero the behaviour is undefined:   *)
(* a build that converts through the signed 64-bit instruction hands         *)
(* fc::seconds, whose parameter is int64_t, the truncated value again, and a *)
(* build whose conversion saturates hands it zero.                           *)
SecondsOf(value_s) ==
    IF Truncated(value_s) >= 0 THEN {Truncated(value_s)}
    ELSE {Truncated(value_s), 0}

(* The command line of a transaction command, with or without -x; the       *)
(* argument given is kept in args.x, <<>> when there is none.               *)
ParseExpiration ==
    /\ pc = "main"
    /\ \E a \in CommandArgs("account_create") :
          /\ cmd' = "account_create"
          /\ \/ /\ args' = [name |-> a.name, owner |-> a.owner, x |-> <<>>]
                /\ UNCHANGED tx_expiration
             \/ \E value_s \in ExpirationArgs :
                   /\ args' = [name |-> a.name, owner |-> a.owner, x |-> <<value_s>>]
                   /\ tx_expiration' \in SecondsOf(value_s)
          /\ tx_dont_broadcast' \in BOOLEAN
    /\ pc' = "callback"
    /\ UNCHANGED <<url, wallet_url, tx_ref_block_num_or_id, tx_skip_sign,
                   locals, io, remote>>

ExpiryNext ==
    \/ ParseExpiration
    \/ account_create_callback
    \/ push_transaction_get_info
    \/ push_transaction_get_block
    \/ sign_transaction_public_keys
    \/ sign_transaction_required_keys
    \/ sign_transaction_sign
    \/ push_transaction_broadcast
    \/ main_catch
    \/ main_return
    \/ NodeAdvance
    \/ WalletChange

ExpirySpec == Init /\ [][ExpiryNext]_vars

(* The literal "default" of the permission options. *)
Default == <<"default">>

(***************************************************************************)
(* The documents of the command line and the files of the working          *)
(* directory.                                                              *)
(***************************************************************************)
InlineObject == <<"{", "}">>
PaddedObject == <<" ", "{", "}">>
Unclosed == <<"{">>
InlineArray == <<"[", "{", "}", ",", "{", "}", "]">>
ObjectFile == <<"f">>
ArrayFile == <<"l">>
BadFile == <<"m">>
NoSuchFile == <<"g">>

(* The regular files: three files with plain names, the third one holding  *)
(* an open brace, and one whose name is the text of a JSON object.         *)
RegularFiles == {ObjectFile, ArrayFile, BadFile, InlineObject}
is_regular_file(p) == p \in RegularFiles
FileText(p) ==
    IF p = ArrayFile THEN <<"[", "{", "file", "}", ",", "{", "file", "}", "]">>
    ELSE IF p = BadFile THEN <<"{">>
    ELSE <<"{", "file", "}">>

(* fc::json: a text is parsed from its first token that is not white space; *)
(* the parser answers with the variant the text denotes or throws.  A text  *)
(* is taken as well formed when it opens with a brace or a bracket and its  *)
(* braces and brackets match.                                               *)
RECURSIVE SkipBlanks(_, _)
SkipBlanks(text, blanks) ==
    IF text # <<>> /\ Head(text) \in blanks THEN SkipBlanks(Tail(text), blanks)
    ELSE text

RECURSIVE Matches(_, _)
Matches(text, open) ==
    IF text = <<>> THEN open = <<>>
    ELSE IF Head(text) \in {"{", "["}
         THEN Matches(Tail(text), <<Head(text)>> \o open)
    ELSE IF Head(text) \in {"}", "]"}
         THEN /\ open # <<>>
              /\ Head(open) = (IF Head(text) = "}" THEN "{" ELSE "[")
              /\ Matches(Tail(text), Tail(open))
    ELSE Matches(Tail(text), open)

Thrown(type) == [ok |-> FALSE, value |-> <<>>, type |-> type]
Returned(value) == [ok |-> TRUE, value |-> value, type |-> "none"]

(* A variant of from_string that answers with a variant for every text. *)
from_string_Lenient(text) == Returned(SkipBlanks(text, {" ", "\t", "\n"}))

from_string(text) ==
    LET t == SkipBlanks(text, {" ", "\t", "\n"})
    IN  IF t # <<>> /\ Head(t) \in {"{", "["} /\ Matches(t, <<>>)
        THEN Returned(t)
        ELSE Thrown("parse_error_exception")

from_file(p) == from_string(FileText(p))

is_object(v) == v # <<>> /\ Head(v) = "{"
is_array(v) == v # <<>> /\ Head(v) = "["

(* The elements of an array variant: its objects. *)
ArraySize(v) == Len(SelectSeq(v, LAMBDA c : c = "{"))

(* variant::as<T>: an object is converted, every other variant throws *)
as_permission(v) == [json |-> v]
as_group(v) == [json |-> v]
group_key(g) == public_key_type(<<"key of">> \o g.json)
as_signed_transaction(v) ==
    [expiration |-> 0, ref_block |-> NullBlockId,
     actions |-> <<[domain |-> N128("json"), key |-> name128(v), data |-> v]>>,
     signatures |-> {}]

(***************************************************************************)
(* json_from_file_or_string (lines 174-182)                                *)
(***************************************************************************)

(* regex_search(file_or_str, regex("^[ \t]*[\{\[]")) *)
regex_search(file_or_str) ==
    LET t == SkipBlanks(file_or_str, {" ", "\t"})
    IN  t # <<>> /\ Head(t) \in {"{", "["}

json_from_file_or_string(file_or_str) ==
    IF ~regex_search(file_or_str) /\ is_regular_file(file_or_str)
    THEN from_file(file_or_str)
    ELSE from_string(file_or_str)

(* lines 791-795 and 827-831: the file of that name when there is one *)
json_from_file_else_string(file_or_str) ==
    IF is_regular_file(file_or_str)
    THEN from_file(file_or_str)
    ELSE from_string(file_or_str)

(***************************************************************************)
(* parse_permission, parse_group (lines 184-200)                           *)
(***************************************************************************)
parse_permission(jsonOrFile) ==
    LET parsedPermission == json_from_file_or_string(jsonOrFile)
    IN  IF parsedPermission.ok /\ is_object(parsedPermission.value)
        THEN Returned(as_permission(parsedPermission.value))
        ELSE Thrown("permission_type_exception")

parse_group(jsonOrFile) ==
    LET parsedGroup == json_from_file_or_string(jsonOrFile)
    IN  IF parsedGroup.ok /\ is_object(parsedGroup.value)
        THEN Returned(as_group(parsedGroup.value))
        ELSE Thrown("group_type_exception")

(***************************************************************************)
(* get_default_permission (lines 202-218)                                  *)
(***************************************************************************)

(* A variant of get_default_permission that gives the key a weight of 2. *)
get_default_permission_Weight2(pname, pkey) ==
    [name |-> pname, threshold |-> 1,
     authorizers |-> <<[ref |-> <<"account", pkey>>, weight |-> 2]>>]

(* A variant of get_default_permission that refers to the key it is given, *)
(* the default constructed key included.                                   *)
get_default_permission_AlwaysKey(pname, pkey) ==
    [name |-> pname, threshold |-> 1,
     authorizers |-> <<[ref |-> <<"account", pkey>>, weight |-> 1]>>]

get_default_permission(pname, pkey) ==
    [name |-> pname, threshold |-> 1,
     authorizers |->
        <<IF pkey = ZeroKey
          THEN [ref |-> <<"group", group_id_from_string(<<"owner">>)>>, weight |-> 1]
          ELSE [ref |-> <<"account", pkey>>, weight |-> 1]>>]

(* The member of updatedomain ud that no statement assigns (line 258): as   *)
(* it is constructed, it holds no permission.                               *)
EmptyPermission == [name |-> EmptyString, threshold |-> 0, authorizers |-> <<>>]

(***************************************************************************)
(* domain create, domain update (lines 237-272)                            *)
(***************************************************************************)
domain_create_callback ==
    /\ pc = "callback" /\ cmd = "domain_create"
    /\ LET issuer == public_key_type(args.issuer)
           issue == IF args.issue = Default
                    THEN Returned(get_default_permission(<<"issue">>, issuer))
                    ELSE parse_permission(args.issue)
           transfer == IF args.transfer = Default
                       THEN Returned(get_default_permission(<<"transfer">>, ZeroKey))
                       ELSE parse_permission(args.transfer)
           manage == IF args.manage = Default
                     THEN Returned(get_default_permission(<<"manage">>, issuer))
                     ELSE parse_permission(args.manage)
           nd == [name |-> name128(args.name), issuer |-> issuer,
                  issue |-> issue.value, transfer |-> transfer.value,
                  manage |-> manage.value]
       IN  IF issue.ok /\ transfer.ok /\ manage.ok
           THEN SendsAction(create_action(N128("domain"), nd.name, nd))
           ELSE Throws("permission_type_exception")
    /\ UNCHANGED <<config, info, public_keys, required_keys, calls, out,
                   exit_status, remote>>

(* A variant of domain_update_callback that fills a slot left at "default"  *)
(* as domain create does.                                                   *)
domain_update_callback_FillsDefaults ==
    /\ pc = "callback" /\ cmd = "domain_update"
    /\ LET issue == IF args.issue # Default THEN parse_permission(args.issue)
                    ELSE Returned(get_default_permission(<<"issue">>, ZeroKey))
           transfer == IF args.transfer # Default THEN parse_permission(args.transfer)
                       ELSE Returned(get_default_permission(<<"transfer">>, ZeroKey))
           manage == IF args.manage # Default THEN parse_permission(args.manage)
                     ELSE Returned(get_default_permission(<<"manage">>, ZeroKey))
           ud == [name |-> name128(args.name),
                  issue |-> issue.value, transfer |-> transfer.value,
                  manage |-> manage.value]
       IN  IF issue.ok /\ transfer.ok /\ manage.ok
           THEN SendsAction(create_action(N128("domain"), ud.name, ud))
           ELSE Throws("permission_type_exception")
    /\ UNCHANGED <<config, info, public_keys, required_keys, calls, out,
                   exit_status, remote>>

(* lines 257-272 *)
domain_update_callback ==
    /\ pc = "callback" /\ cmd = "domain_update"
    /\ LET issue == IF args.issue # Default THEN parse_permission(args.issue)
                    ELSE Returned(EmptyPermission)
           transfer == IF args.transfer # Default THEN parse_permission(args.transfer)
                       ELSE Returned(EmptyPermission)
           manage == IF args.manage # Default THEN parse_permission(args.manage)
                     ELSE Returned(EmptyPermission)
           ud == [name |-> name128(args.name),
                  issue |-> issue.value, transfer |-> transfer.value,
                  manage |-> manage.value]
       IN  IF issue.ok /\ transfer.ok /\ manage.ok
           THEN SendsAction(create_action(N128("domain"), ud.name, ud))
           ELSE Throws("permission_type_exception")
    /\ UNCHANGED <<config, info, public_keys, required_keys, calls, out,
                   exit_status, remote>>

(***************************************************************************)
(* token issue (lines 289-297), token transfer (lines 314-322)             *)
(***************************************************************************)
token_issue_callback ==
    /\ pc = "callback" /\ cmd = "token_issue"
    /\ LET it == [domain |-> name128(args.domain),
                  names |-> [i \in DOMAIN args.names |-> name128(args.names[i])],
                  owner |-> [i \in DOMAIN args.owner |-> public_key_type(args.owner[i])]]
       IN  SendsAction(create_action(it.domain, N128("issue"), it))
    /\ UNCHANGED <<config, info, public_keys, required_keys, calls, out,
                   exit_status, remote>>

token_transfer_callback ==
    /\ pc = "callback" /\ cmd = "token_transfer"
    /\ LET tt == [domain |-> name128(args.domain), name |-> name128(args.name),
                  to |-> [i \in DOMAIN args.to |-> public_key_type(args.to[i])]]
       IN  SendsAction(create_action(tt.domain, tt.name, tt))
    /\ UNCHANGED <<config, info, public_keys, required_keys, calls, out,
                   exit_status, remote>>

(***************************************************************************)
(* group create, group update (lines 337-381)                              *)
(***************************************************************************)
group_create_callback ==
    /\ pc = "callback" /\ cmd = "group_create"
    /\ LET group == parse_group(args.json)
       IN  IF group.ok
           THEN LET ng == [id |-> group_id_from_group_key(group_key(group.value)),
                           group |-> group.value]
                IN  SendsAction(create_action(N128("group"), ng.id, ng))
           ELSE Throws("group_type_exception")
    /\ UNCHANGED <<config, info, public_keys, required_keys, calls, out,
                   exit_status, remote>>

(* A variant of MissingIdentifier that asks for the id. *)
MissingIdentifier_WithoutId(id, key) == id = EmptyString

(* lines 360 and 494: the condition FC_ASSERT fails on *)
MissingIdentifier(id, key) == id = EmptyString /\ key = EmptyString

(* A variant of GroupId that prefers the id given to the one of the key. *)
GroupId_IdFirst(id, key) ==
    IF id # EmptyString THEN group_id_from_string(id)
    ELSE group_id_from_group_key(public_key_type(key))

(* lines 361-371 and 495-505: gid, and what printf writes *)
GroupId(id, key) ==
    IF key # EmptyString THEN group_id_from_group_key(public_key_type(key))
    ELSE group_id_from_string(id)
GroupIdPrinted(key) ==
    IF key # EmptyString
    THEN <<<<"Group id:", to_base58(group_id_from_group_key(public_key_type(key)))>>>>
    ELSE <<>>

group_update_callback ==
    /\ pc = "callback" /\ cmd = "group_update"
    /\ IF MissingIdentifier(args.id, args.key)
       THEN /\ Throws("assert_exception")
            /\ UNCHANGED out
       ELSE /\ out' = out \o GroupIdPrinted(args.key)
            /\ LET group == parse_group(args.json)
                   ug == [id |-> GroupId(args.id, args.key), group |-> group.value]
               IN  IF group.ok
                   THEN SendsAction(create_action(N128("group"), ug.id, ug))
                   ELSE Throws("group_type_exception")
    /\ UNCHANGED <<config, info, public_keys, required_keys, calls,
                   exit_status, remote>>

(***************************************************************************)
(* account create is above; account transfer, account update               *)
(* (lines 423-447)                                                         *)
(***************************************************************************)
account_transfer_callback ==
    /\ pc = "callback" /\ cmd = "account_transfer"
    /\ LET te == [from |-> name128(args.from), to |-> name128(args.to),
                  amount |-> asset_from_string(args.amount)]
       IN  SendsAction(create_action(N128("account"), te.from, te))
    /\ UNCHANGED <<config, info, public_keys, required_keys, calls, out,
                   exit_status, remote>>

account_update_callback ==
    /\ pc = "callback" /\ cmd = "account_update"
    /\ LET uo == [name |-> name128(args.name),
                  owner |-> [i \in DOMAIN args.owner |-> public_key_type(args.owner[i])]]
       IN  SendsAction(create_action(N128("account"), uo.name, uo))
    /\ UNCHANGED <<config, info, public_keys, required_keys, calls, out,
                   exit_status, remote>>

(***************************************************************************)
(* get group (lines 492-509)                                               *)
(***************************************************************************)

(* The node's answer to get_group. *)
NodeGroup(arg) == [id |-> arg.id]

get_group_callback ==
    /\ pc = "callback" /\ cmd = "get_group"
    /\ IF MissingIdentifier(args.id, args.key)
       THEN /\ Throws("assert_exception")
            /\ UNCHANGED <<out, calls>>
       ELSE LET arg == [id |-> to_base58(GroupId(args.id, args.key))]
            IN  \E o \in Outcomes :
                  /\ calls' = Called(url, "get_group", arg, o, NodeGroup(arg))
                  /\ UNCHANGED trx
                  /\ IF o = "ok"
                     THEN /\ out' = out \o GroupIdPrinted(args.key)
                                        \o <<NodeGroup(arg)>>
                          /\ pc' = "return"
                          /\ UNCHANGED <<exc, err>>
                     ELSE /\ out' = out \o GroupIdPrinted(args.key)
                          /\ CallThrows(url, o)
    /\ UNCHANGED <<config, info, public_keys, required_keys, exit_status, remote>>

(***************************************************************************)
(* sign (lines 789-813)                                                    *)
(***************************************************************************)

(* trx.sign(priv_key, chain_id_type{}) *)
Signed(t, priv_key) ==
    [t EXCEPT !.signatures = t.signatures \cup {<<"signature", priv_key>>}]

sign_callback ==
    /\ pc = "callback" /\ cmd = "sign"
    /\ LET trx_var == json_from_file_else_string(args.transaction)
       IN  IF ~trx_var.ok
           THEN /\ Throws("parse_error_exception")
                /\ UNCHANGED <<calls, out>>
           ELSE IF ~is_object(trx_var.value)
           THEN /\ Throws("bad_cast_exception")
                /\ UNCHANGED <<calls, out>>
           ELSE LET t == Signed(as_signed_transaction(trx_var.value),
                                args.private_key)
                IN  /\ trx' = t
                    /\ IF args.push_trx
                       THEN \E o \in Outcomes :
                              /\ calls' = Called(url, "push_transaction",
                                                 Packed(t, "none"), o,
                                                 NodeReceipt(Packed(t, "none")))
                              /\ IF o = "ok"
                                 THEN /\ out' = Append(out, NodeReceipt(Packed(t, "none")))
                                      /\ pc' = "return"
                                      /\ UNCHANGED <<exc, err>>
                                 ELSE /\ CallThrows(url, o)
                                      /\ UNCHANGED out
                       ELSE /\ out' = Append(out, t)
                            /\ pc' = "return"
                            /\ UNCHANGED <<calls, exc, err>>
    /\ UNCHANGED <<config, info, public_keys, required_keys, exit_status, remote>>

(***************************************************************************)
(* push transaction (lines 824-836), push transactions (lines 841-848)     *)
(***************************************************************************)
(* A variant of push_transaction_callback that hands the transaction of the *)
(* document to push_transaction, as the structured commands do.             *)
push_transaction_callback_ThroughPipeline ==
    /\ pc = "callback" /\ cmd = "push_transaction"
    /\ LET trx_var == json_from_file_else_string(args.transaction)
       IN  IF ~trx_var.ok
           THEN Throws("transaction_type_exception")
           ELSE IF ~is_object(trx_var.value)
           THEN Throws("bad_cast_exception")
           ELSE /\ trx' = as_signed_transaction(trx_var.value)
                /\ pc' = "get_info"
                /\ UNCHANGED <<exc, err>>
    /\ UNCHANGED <<config, info, public_keys, required_keys, calls, out,
                   exit_status, remote>>

push_transaction_callback ==
    /\ pc = "callback" /\ cmd = "push_transaction"
    /\ LET trx_var == json_from_file_else_string(args.transaction)
       IN  IF ~trx_var.ok
           THEN /\ Throws("transaction_type_exception")
                /\ UNCHANGED <<calls, out>>
           ELSE IF ~is_object(trx_var.value)
           THEN /\ Throws("bad_cast_exception")
                /\ UNCHANGED <<calls, out>>
           ELSE LET t == as_signed_transaction(trx_var.value)
                IN  /\ trx' = t
                    /\ \E o \in Outcomes :
                          /\ calls' = Called(url, "push_transaction",
                                             Packed(t, "none"), o,
                                             NodeReceipt(Packed(t, "none")))
                          /\ IF o = "ok"
                             THEN /\ out' = Append(out, NodeReceipt(Packed(t, "none")))
                                  /\ pc' = "return"
                                  /\ UNCHANGED <<exc, err>>
                             ELSE /\ CallThrows(url, o)
                                  /\ UNCHANGED out
    /\ UNCHANGED <<config, info, public_keys, required_keys, exit_status, remote>>

push_transactions_callback ==
    /\ pc = "callback" /\ cmd = "push_transactions"
    /\ LET trx_var == from_string(args.transactions)
       IN  IF ~trx_var.ok
           THEN /\ Throws("transaction_type_exception")
                /\ UNCHANGED <<calls, out>>
           ELSE /\ UNCHANGED trx
                /\ \E o \in Outcomes :
                      /\ calls' = Called(url, "push_transactions", trx_var.value, o,
                                         NodeReceipt(trx_var.value))
                      /\ IF o = "ok"
                         THEN /\ out' = Append(out, NodeReceipt(trx_var.value))
                              /\ pc' = "return"
                              /\ UNCHANGED <<exc, err>>
                         ELSE /\ CallThrows(url, o)
                              /\ UNCHANGED out
    /\ UNCHANGED <<config, info, public_keys, required_keys, exit_status, remote>>

(***************************************************************************)
(* main: the command lines of the structured commands, of get group, of    *)
(* sign and of the two push commands.  The structured commands are run     *)
(* with -s, with and without -d.                                           *)
(***************************************************************************)
Names == {<<"a">>, <<"b">>}
KeyArgs == {<<"PUB1">>, <<"PUB2">>}
PermissionArgs == {Default, InlineObject, Unclosed, ObjectFile}
JsonArgs == {InlineObject, PaddedObject, Unclosed, InlineArray, ObjectFile,
             ArrayFile, BadFile, NoSuchFile}
OptionalNames == Names \cup {EmptyString}
OptionalKeys == {<<"PUB1">>, EmptyString}

CommandLines(c) ==
    CASE c = "domain_create" ->
            [name : Names, issuer : KeyArgs, issue : PermissionArgs,
             transfer : PermissionArgs, manage : PermissionArgs]
      [] c = "domain_update" ->
            [name : Names, issue : PermissionArgs,
             transfer : PermissionArgs, manage : PermissionArgs]
      [] c = "token_issue" ->
            [domain : Names, names : {<<n>> : n \in Names} \cup {<<<<"a">>, <<"b">>>>},
             owner : {<<<<"PUB1">>>>}]
      [] c = "token_transfer" ->
            [domain : Names, name : Names, to : {<<<<"PUB1">>>>}]
      [] c = "group_create" -> [json : JsonArgs]
      [] c = "group_update" ->
            [id : OptionalNames, key : OptionalKeys, json : JsonArgs]
      [] c = "account_create" -> [name : Names, owner : {<<<<"PUB1">>>>}]
      [] c = "account_transfer" ->
            [from : Names, to : Names, amount : {<<"1.0000 EVT">>}]
      [] c = "account_update" -> [name : Names, owner : {<<<<"PUB1">>>>}]
      [] c = "get_group" -> [id : OptionalNames, key : OptionalKeys]
      [] c = "sign" ->
            [transaction : JsonArgs, private_key : {<<"PRIV1">>}, push_trx : BOOLEAN]
      [] c = "push_transaction" -> [transaction : JsonArgs]
      [] c = "push_transactions" -> [transactions : JsonArgs]

OtherCommands == {"get_group", "sign", "push_transaction", "push_transactions"}

ParseCommand ==
    /\ pc = "main"
    /\ \E c \in TransactionCommands \cup OtherCommands :
          /\ cmd' = c
          /\ args' \in CommandLines(c)
          /\ IF c \in TransactionCommands
             THEN /\ tx_skip_sign' = TRUE
                  /\ tx_dont_broadcast' \in BOOLEAN
             ELSE UNCHANGED <<tx_skip_sign, tx_dont_broadcast>>
    /\ pc' = "callback"
    /\ UNCHANGED <<url, wallet_url, tx_expiration, tx_ref_block_num_or_id,
                   locals, io, remote>>

CommandNext ==
    \/ ParseCommand
    \/ domain_create_callback
    \/ domain_update_callback
    \/ token_issue_callback
    \/ token_transfer_callback
    \/ group_create_callback
    \/ group_update_callback
    \/ account_create_callback
    \/ account_transfer_callback
    \/ account_update_callback
    \/ get_group_callback
    \/ sign_callback
    \/ push_transaction_callback
    \/ push_transactions_callback
    \/ push_transaction_get_info
    \/ push_transaction_get_block
    \/ push_transaction_broadcast
    \/ main_catch
    \/ main_return
    \/ NodeAdvance

CommandSpec == Init /\ [][CommandNext]_vars

(***************************************************************************)
(* The read-only queries: get domain, token, account (lines 451-525), get  *)
(* block, transaction, transactions (lines 576-624); get info and get      *)
(* group are above.                                                        *)
(***************************************************************************)

(* The node's answers; it knows the transactions of the blocks 1..head. *)
TransactionIds == {<<"txid", n>> : n \in BlockNums}
NodeKnowsTransaction(id) == id \in TransactionIds /\ id[2] <= head
NodeTransaction(n) ==
    [seq_num |-> n, transaction_id |-> <<"txid", n>>,
     transaction |-> [data |-> [expiration |-> BlockTime(n), actions |-> <<>>]]]
NodeTransactions(arg, h) == [transactions |-> [n \in 1..h |-> NodeTransaction(n)]]
NodeDomain(arg) == [name |-> arg.name]
NodeToken(arg) == [domain |-> arg.domain, name |-> arg.name]
NodeAccount(arg) == [name |-> arg.name]

(* A variant of Query whose call makes the node declare its head block      *)
(* irreversible.                                                            *)
Query_Writes(path, arg, known, ret) ==
    /\ \E o0 \in Outcomes :
          LET o == IF o0 = "ok" /\ ~known THEN "error" ELSE o0
          IN  /\ calls' = Called(url, path, arg, o, ret)
              /\ IF o = "ok"
                 THEN /\ out' = Append(out, ret)
                      /\ pc' = "return"
                      /\ UNCHANGED <<exc, err>>
                 ELSE /\ CallThrows(url, o)
                      /\ UNCHANGED out
    /\ lib' = head
    /\ UNCHANGED <<config, locals, exit_status, head, walletKeys>>

(* std::cout << fc::json::to_pretty_string(call(func, arg)) << std::endl;   *)
(* the node answers with an error when it does not know what is asked for.  *)
Query(path, arg, known, ret) ==
    /\ \E o0 \in Outcomes :
          LET o == IF o0 = "ok" /\ ~known THEN "error" ELSE o0
          IN  /\ calls' = Called(url, path, arg, o, ret)
              /\ IF o = "ok"
                 THEN /\ out' = Append(out, ret)
                      /\ pc' = "return"
                      /\ UNCHANGED <<exc, err>>
                 ELSE /\ CallThrows(url, o)
                      /\ UNCHANGED out
    /\ UNCHANGED <<config, locals, exit_status, remote>>

get_domain_callback ==
    /\ pc = "callback" /\ cmd = "get_domain"
    /\ LET arg == [name |-> args.name]
       IN  Query("get_domain", arg, TRUE, NodeDomain(arg))

get_token_callback ==
    /\ pc = "callback" /\ cmd = "get_token"
    /\ LET arg == [domain |-> args.domain, name |-> args.name]
       IN  Query("get_token", arg, TRUE, NodeToken(arg))

get_account_callback ==
    /\ pc = "callback" /\ cmd = "get_account"
    /\ LET arg == [name |-> args.name]
       IN  Query("get_account", arg, TRUE, NodeAccount(arg))

get_block_callback ==
    /\ pc = "callback" /\ cmd = "get_block"
    /\ LET arg == [block_num_or_id |-> args.block]
       IN  Query("get_block", arg, NodeKnowsBlock(args.block), NodeBlock(args.block))

get_transaction_callback ==
    /\ pc = "callback" /\ cmd = "get_transaction"
    /\ LET arg == [transaction_id |-> args.id]
       IN  Query("get_transaction", arg, NodeKnowsTransaction(args.id),
                 NodeTransaction(args.id[2]))

(* lines 603-607 *)
TransactionsArg ==
    IF args.skip_seq = EmptyString
    THEN [account_name |-> args.account_name]
    ELSE IF args.num_seq = EmptyString
    THEN [account_name |-> args.account_name, skip_seq |-> args.skip_seq]
    ELSE [account_name |-> args.account_name, skip_seq |-> args.skip_seq,
          num_seq |-> args.num_seq]

(* lines 612-622: one line for each transaction of result *)
SummaryLines(result) ==
    [n \in DOMAIN result.transactions |->
        [seq_num |-> result.transactions[n].seq_num,
         id |-> result.transactions[n].transaction_id,
         expiration |-> result.transactions[n].transaction.data.expiration]]

(* line 608: auto result = call(get_transactions_func, arg) *)
get_transactions_callback ==
    /\ pc = "callback" /\ cmd = "get_transactions"
    /\ \E o \in Outcomes :
          /\ calls' = Called(url, "get_transactions", TransactionsArg, o,
                             NodeTransactions(TransactionsArg, head))
          /\ IF o = "ok"
             THEN /\ pc' = "get_transactions"
                  /\ UNCHANGED <<exc, err>>
             ELSE CallThrows(url, o)
    /\ UNCHANGED <<config, locals, out, exit_status, remote>>

(* lines 609-622: the JSON of a second call, and the lines of the result of *)
(* the first one                                                            *)
get_transactions_print ==
    /\ pc = "get_transactions"
    /\ \E o \in Outcomes :
          /\ calls' = Called(url, "get_transactions", TransactionsArg, o,
                             NodeTransactions(TransactionsArg, head))
          /\ IF o = "ok"
             THEN /\ out' = out \o <<NodeTransactions(TransactionsArg, head)>>
                                \o SummaryLines(calls[Len(calls)].ret)
                  /\ pc' = "return"
                  /\ UNCHANGED <<exc, err>>
             ELSE /\ CallThrows(url, o)
                  /\ UNCHANGED out
    /\ UNCHANGED <<config, locals, exit_status, remote>>

QueryCommands == {"get_info", "get_block", "get_transaction", "get_transactions",
                  "get_domain", "get_token", "get_group", "get_account"}

QueryLines(c) ==
    CASE c = "get_info" -> {[name |-> EmptyString]}
      [] c = "get_block" -> [block : RefArgs]
      [] c = "get_transaction" -> [id : TransactionIds]
      [] c = "get_transactions" ->
            [account_name : Names, skip_seq : {EmptyString, <<"0">>},
             num_seq : {EmptyString, <<"1">>}]
      [] c = "get_domain" -> [name : Names]
      [] c = "get_token" -> [domain : Names, name : Names]
      [] c = "get_group" -> [id : OptionalNames, key : OptionalKeys]
      [] c = "get_account" -> [name : Names]

ParseQuery ==
    /\ pc = "main"
    /\ \E c \in QueryCommands :
          /\ cmd' = c
          /\ args' \in QueryLines(c)
    /\ pc' = "callback"
    /\ UNCHANGED <<url, wallet_url, tx_expiration, tx_ref_block_num_or_id,
                   tx_dont_broadcast, tx_skip_sign, locals, io, remote>>

QueryNext ==
    \/ ParseQuery
    \/ get_info_callback
    \/ get_block_callback
    \/ get_transaction_callback
    \/ get_transactions_callback
    \/ get_transactions_print
    \/ get_domain_callback
    \/ get_token_callback
    \/ get_group_callback
    \/ get_account_callback
    \/ main_catch
    \/ main_return
    \/ NodeAdvance

QuerySpec == Init /\ [][QueryNext]_vars

(***************************************************************************)
(* Properties                                                              *)
(***************************************************************************)
InPipeline == cmd \in TransactionCommands
Paths == [i \in 1..Len(calls) |-> calls[i].path]
CallsTo(path) == {i \in 1..Len(calls) : calls[i].path = path}
SignerPaths == {"wallet_public_keys", "get_required_keys", "wallet_sign_trx"}
Failed(path) == \E i \in CallsTo(path) : ~calls[i].ok
IsPrefix(a, b) == Len(a) <= Len(b) /\ a = SubSeq(b, 1, Len(a))

PipelineOrder == <<"get_info", "get_block", "wallet_public_keys",
                   "get_required_keys", "wallet_sign_trx", "push_transaction">>
StepEnabled(path) ==
    /\ path \in SignerPaths => ~tx_skip_sign
    /\ path = "push_transaction" => ~tx_dont_broadcast
ExpectedOrder == SelectSeq(PipelineOrder, StepEnabled)

(* C1: in a run of the pipeline the remote calls issued so far are a prefix  *)
(* of get_info, get_block, wallet list-public-keys, get_required_keys,       *)
(* wallet sign_transaction, push_transaction, with the steps that skip-sign  *)
(* or dont-broadcast disable left out; and only the last call issued can be  *)
(* a failed one, so that no call follows a failure.                          *)
C1_CallOrder ==
    InPipeline =>
        /\ IsPrefix(Paths, ExpectedOrder)
        /\ \A i \in 1..(Len(calls) - 1) : calls[i].ok

(* A run that issued all six calls. *)
C1_Witness ==
    /\ pc = "done" /\ InPipeline
    /\ Paths = PipelineOrder

(* C2: when one of the three calls of the signer has failed, the command is  *)
(* in error (the exception of call is on its way to main, or main has ended *)
(* on it)                                                                  *)
(* and the node's push_transaction endpoint has not been called.             *)
C2_SignerFailureNoBroadcast ==
    (InPipeline /\ \E p \in SignerPaths : Failed(p)) =>
        /\ exc.type \in {"connection_exception", "fc_exception"}
        /\ pc \in {"catch", "done"}
        /\ CallsTo("push_transaction") = {}

C2_Witness ==
    /\ pc = "done" /\ InPipeline /\ ~tx_dont_broadcast
    /\ Failed("wallet_sign_trx")

(* C3: when the get_block call of the pipeline has failed, the command is in *)
(* error with invalid_ref_block_exception carrying the caller's              *)
(* tx_ref_block_num_or_id, the get_info call came before it and succeeded,   *)
(* and no wallet call, no get_required_keys call and no push_transaction     *)
(* call has been issued.                                                     *)
C3_InvalidRefBlock ==
    (InPipeline /\ Failed("get_block")) =>
        /\ exc = [type |-> "invalid_ref_block_exception",
                  arg |-> tx_ref_block_num_or_id]
        /\ Paths = <<"get_info", "get_block">>
        /\ calls[1].ok

(* An unknown block number given by the caller. *)
C3_Witness ==
    /\ pc = "done" /\ InPipeline
    /\ Failed("get_block")
    /\ tx_ref_block_num_or_id \in RefArgs
    /\ tx_ref_block_num_or_id[2] > head
    /\ ~tx_skip_sign /\ ~tx_dont_broadcast

(* The transactions the pipeline handed out: to the required-keys query, to  *)
(* the wallet, to the submission endpoint, and to standard output.           *)
HandedOut ==
    {calls[i].arg.transaction : i \in CallsTo("get_required_keys")}
    \cup {AsTransaction(calls[i].arg.trx) : i \in CallsTo("wallet_sign_trx")}
    \cup {AsTransaction(calls[i].arg.trx) : i \in CallsTo("push_transaction")}
    \cup (IF tx_dont_broadcast /\ pc \in {"return", "done"} /\ exc.type = "none"
          THEN {AsTransaction(out[Len(out)])} ELSE {})

(* C4: every transaction handed to the signer, submitted or printed has as   *)
(* reference block the id the get_block call returned, and that call asked   *)
(* for the caller's reference block when one was given and else for the      *)
(* last_irreversible_block_num the get_info call of the run returned.        *)
C4_ReferenceBlock ==
    (InPipeline /\ HandedOut # {}) =>
        /\ Len(calls) >= 2
        /\ calls[1].path = "get_info" /\ calls[1].ok
        /\ calls[2].path = "get_block" /\ calls[2].ok
        /\ calls[2].arg = IF tx_ref_block_num_or_id # EmptyString
                          THEN tx_ref_block_num_or_id
                          ELSE <<"num", calls[1].ret.last_irreversible_block_num>>
        /\ \A t \in HandedOut : t.ref_block = calls[2].ret.id

(* A transaction submitted whose resolved block is not the head block that   *)
(* get_info reported, for a caller's reference block and for the default.    *)
C4_Witness ==
    /\ pc = "done" /\ InPipeline /\ exc.type = "none"
    /\ CallsTo("push_transaction") # {}
    /\ tx_ref_block_num_or_id = EmptyString
    /\ calls[2].ret.id # calls[1].ret.head_block_id

(* The transactions submitted or printed after a signing call that returned. *)
SignedOutput ==
    IF \E i \in CallsTo("wallet_sign_trx") : calls[i].ok
    THEN {calls[i].arg.trx : i \in CallsTo("push_transaction")}
         \cup (IF tx_dont_broadcast /\ pc \in {"return", "done"} /\ exc.type = "none"
               THEN {out[Len(out)]} ELSE {})
    ELSE {}

(* C5: the signatures of a signed transaction that the pipeline submits or   *)
(* prints are those of exactly the keys the node's get_required_keys call    *)
(* returned; a wallet whose keys changed after that query makes the run fail *)
(* or resolve the keys again, and never yields other signatures.             *)
C5_SignaturesAreRequiredKeys ==
    InPipeline =>
        \A t \in SignedOutput : \A i \in CallsTo("get_required_keys") :
            calls[i].ok => t.signatures = calls[i].ret.required_keys

(* C6: the available_keys sent to get_required_keys are the keys the         *)
(* wallet's list call returned in this run and the transaction sent with     *)
(* them has no signatures field; the keys sent to the wallet's signing call  *)
(* are the required_keys the get_required_keys call returned.                *)
C6_SignerArguments ==
    InPipeline =>
        /\ \A i \in CallsTo("get_required_keys") :
              /\ i > 1 /\ calls[i - 1].path = "wallet_public_keys" /\ calls[i - 1].ok
              /\ calls[i].arg.available_keys = calls[i - 1].ret
              /\ DOMAIN calls[i].arg.transaction = {"expiration", "ref_block", "actions"}
        /\ \A i \in CallsTo("wallet_sign_trx") :
              /\ i > 1 /\ calls[i - 1].path = "get_required_keys" /\ calls[i - 1].ok
              /\ calls[i].arg.keys = calls[i - 1].ret.required_keys

(* A signing call whose key set is a proper subset of the keys listed, with  *)
(* the wallet changed since the listing.                                     *)
C6_Witness ==
    /\ pc = "done" /\ InPipeline
    /\ \E i \in CallsTo("wallet_sign_trx") :
          /\ calls[i].arg.keys # {}
          /\ calls[i].arg.keys # calls[i - 2].ret
    /\ walletKeys # public_keys

(* C7: the process ends with a status other than 0 exactly when an error was *)
(* raised while the command ran.                                             *)
C7_ErrorsExitNonZero ==
    pc = "done" => (exc.type # "none" <=> exit_status # 0)

(* C8: with skip-sign, no call goes to the wallet's endpoints or to          *)
(* get_required_keys, and the transaction submitted or printed has no        *)
(* signatures.                                                               *)
C8_SkipSign ==
    (InPipeline /\ tx_skip_sign) =>
        /\ \A p \in SignerPaths : CallsTo(p) = {}
        /\ \A i \in CallsTo("push_transaction") : calls[i].arg.trx.signatures = {}
        /\ (pc \in {"return", "done"} /\ exc.type = "none" /\ tx_dont_broadcast)
              => out[Len(out)].signatures = {}

(* A run with skip-sign that submitted, with keys in the wallet. *)
C8_Witness ==
    /\ pc = "done" /\ InPipeline /\ tx_skip_sign
    /\ CallsTo("push_transaction") # {}
    /\ walletKeys # {}

(* The run went through the last step of push_transaction (lines 147-151). *)
ReachedBroadcaster ==
    /\ InPipeline
    /\ pc \in {"return", "catch", "done"}
    /\ exc.type = "none" \/ (calls # <<>> /\ calls[Len(calls)].path = "push_transaction")

(* C9: a run that went through the broadcaster either called the node's      *)
(* push_transaction endpoint exactly once, with the packed transaction, and  *)
(* ends with the node's answer (its result printed, or the failure of the    *)
(* call raised and no transaction printed), or, with dont-broadcast, never   *)
(* called it and printed the transaction as the signing step left it.        *)
C9_ExactlyOnePath ==
    ReachedBroadcaster =>
        IF ~tx_dont_broadcast
        THEN /\ Cardinality(CallsTo("push_transaction")) = 1
             /\ \A i \in CallsTo("push_transaction") :
                   /\ calls[i].arg = Packed(trx, "none")
                   /\ IF calls[i].ok
                      THEN exc.type = "none" /\ out # <<>>
                           /\ out[Len(out)] = calls[i].ret
                      ELSE exc.type # "none"
             /\ \A k \in 1..Len(out) : out[k] # trx
        ELSE /\ CallsTo("push_transaction") = {}
             /\ exc.type = "none"
             /\ out # <<>> /\ out[Len(out)] = trx
             /\ \A i \in CallsTo("wallet_sign_trx") : trx = calls[i].ret

(* Both paths are taken: the witness is a signed transaction printed and not *)
(* submitted; C1_Witness is a run that submitted.                            *)
C9_Witness ==
    /\ pc = "done" /\ ReachedBroadcaster /\ tx_dont_broadcast
    /\ trx.signatures # {}

(* C10: every run ends, and no remote call of the pipeline is issued twice,  *)
(* so that a run issues six calls at most.                                   *)
C10_TerminatesEachCallOnce ==
    /\ <>(pc = "done")
    /\ [](/\ \A p \in {calls[i].path : i \in 1..Len(calls)} :
                Cardinality(CallsTo(p)) = 1
          /\ Len(calls) <= Len(PipelineOrder))

(* A run that ended on the failure of its sixth call. *)
C10_Witness ==
    /\ pc = "done"
    /\ Len(calls) = Len(PipelineOrder)
    /\ ~calls[Len(calls)].ok

(* The expiration the caller configured, in whole seconds. *)
ConfiguredExpiration ==
    IF args.x = <<>> THEN DefaultExpiration ELSE Truncated(args.x[1])

(* The transactions sent to the wallet's signing call, sent to the          *)
(* submission endpoint, or printed.                                         *)
SignedSubmittedReturned ==
    {calls[i].arg.trx : i \in CallsTo("wallet_sign_trx")}
    \cup {calls[i].arg.trx : i \in CallsTo("push_transaction")}
    \cup (IF tx_dont_broadcast /\ pc \in {"return", "done"} /\ exc.type = "none"
          THEN {out[Len(out)]} ELSE {})

(* C11: a run that signed, submitted or printed a transaction called        *)
(* get_info once, and the expiration of every such transaction is the       *)
(* head_block_time that call returned plus the configured expiration: 30    *)
(* seconds without -x, and else the whole seconds of the value given to -x. *)
C11_Expiration ==
    (InPipeline /\ SignedSubmittedReturned # {}) =>
        /\ Cardinality(CallsTo("get_info")) = 1
        /\ \A t \in SignedSubmittedReturned : \A i \in CallsTo("get_info") :
              t.expiration = calls[i].ret.head_block_time + ConfiguredExpiration

(* C11 for the values of -x whose conversion is defined, those that are not *)
(* below zero once truncated.                                               *)
C11_ExpirationOfDefinedValues ==
    (InPipeline /\ (args.x = <<>> \/ Truncated(args.x[1]) >= 0)) => C11_Expiration

(* A transaction submitted 1 second after the head block, for -x 1.5. *)
C11_Witness ==
    /\ pc = "done" /\ InPipeline /\ exc.type = "none"
    /\ args.x = <<15>>
    /\ \E i \in CallsTo("push_transaction") :
          calls[i].arg.trx.expiration = calls[1].ret.head_block_time + 1

(* Signing was asked for and the wallet holds none of the keys needed: its  *)
(* key list came back empty, or the node's required-key set did.            *)
NoMatchingKeys ==
    /\ InPipeline /\ ~tx_skip_sign
    /\ \/ \E i \in CallsTo("wallet_public_keys") : calls[i].ok /\ calls[i].ret = {}
       \/ \E i \in CallsTo("get_required_keys") :
             calls[i].ok /\ calls[i].ret.required_keys = {}

(* C12: when signing is asked for and the wallet holds none of the keys     *)
(* needed, the submission endpoint is never called and the command, once it *)
(* has ended, has failed with the error of a remote call.                   *)
C12_NoMatchingKeysFails ==
    NoMatchingKeys =>
        /\ CallsTo("push_transaction") = {}
        /\ pc = "done" => exc.type \in {"fc_exception", "connection_exception"}

(***************************************************************************)
(* Properties of the commands                                              *)
(***************************************************************************)

(* A structured command has handed its action to send_actions. *)
Built == cmd \in TransactionCommands /\ pc \notin {"main", "callback"}
            /\ trx.actions # <<>>
(* The callback of the command has run. *)
CallbackRan == pc \notin {"main", "callback"}
OwnerGroup == group_id_from_string(<<"owner">>)
PermissionNames == {<<"issue">>, <<"transfer">>, <<"manage">>}
KeyPermission(pname, k) ==
    [name |-> pname, threshold |-> 1,
     authorizers |-> <<[ref |-> <<"account", k>>, weight |-> 1]>>]

(* C13: for every permission name and every key that is not the default     *)
(* constructed one, get_default_permission returns the permission of that   *)
(* name with threshold 1 and one authorizer, the key with weight 1; and so  *)
(* is every issue or manage permission that domain create took by default.  *)
C13_DefaultPermissionOfKey ==
    /\ \A pname \in PermissionNames, str \in KeyArgs :
          LET p == get_default_permission(pname, public_key_type(str))
          IN  /\ p.name = pname
              /\ p.threshold = 1
              /\ Len(p.authorizers) = 1
              /\ p.authorizers[1].ref = <<"account", public_key_type(str)>>
              /\ p.authorizers[1].weight = 1
    /\ (Built /\ cmd = "domain_create") =>
          /\ args.issue = Default =>
                trx.actions[1].data.issue
                   = KeyPermission(<<"issue">>, public_key_type(args.issuer))
          /\ args.manage = Default =>
                trx.actions[1].data.manage
                   = KeyPermission(<<"manage">>, public_key_type(args.issuer))

(* A domain created with the issue permission of the key PUB2 by default. *)
C13_Witness ==
    /\ pc = "done" /\ cmd = "domain_create" /\ Built
    /\ args.issue = Default /\ args.issuer = <<"PUB2">>
    /\ trx.actions[1].data.issue.authorizers[1].ref
          = <<"account", public_key_type(<<"PUB2">>)>>

(* C14: for every permission name, get_default_permission of the default    *)
(* constructed key returns a permission with threshold 1 and one            *)
(* authorizer, the group "owner" with weight 1 and no key; and so is every  *)
(* transfer permission that domain create took by default.                  *)
C14_DefaultPermissionOfOwnerGroup ==
    /\ \A pname \in PermissionNames :
          LET p == get_default_permission(pname, public_key_type(EmptyString))
          IN  /\ p.threshold = 1
              /\ Len(p.authorizers) = 1
              /\ p.authorizers[1].ref = <<"group", OwnerGroup>>
              /\ p.authorizers[1].ref[1] # "account"
              /\ p.authorizers[1].weight = 1
    /\ (Built /\ cmd = "domain_create" /\ args.transfer = Default) =>
          trx.actions[1].data.transfer
             = [name |-> <<"transfer">>, threshold |-> 1,
                authorizers |-> <<[ref |-> <<"group", OwnerGroup>>, weight |-> 1]>>]

(* A domain created with the transfer permission by default, printed. *)
C14_Witness ==
    /\ pc = "done" /\ cmd = "domain_create" /\ Built /\ exc.type = "none"
    /\ args.transfer = Default /\ tx_dont_broadcast
    /\ out[Len(out)].actions[1].data.transfer.authorizers[1].ref[1] = "group"

(* The one authorizer of weight 1 of a permission. *)
SingleAuthorizer(p, ref) ==
    /\ Len(p.authorizers) = 1
    /\ p.authorizers[1].weight = 1
    /\ p.authorizers[1].ref = ref

C16_MissingIdentifier ==
    (cmd \in {"group_update", "get_group"} /\ CallbackRan) =>
        IF args.id = EmptyString /\ args.key = EmptyString
        THEN /\ exc.type = "assert_exception"
             /\ pc \in {"catch", "done"}
             /\ calls = <<>>
        ELSE exc.type # "assert_exception"

(* A get group without id and key ended with status 1 and no call. *)
C16_Witness ==
    /\ pc = "done" /\ cmd = "get_group"
    /\ args.id = EmptyString /\ args.key = EmptyString
    /\ exit_status = 1 /\ calls = <<>>

(* The documents of the command line, and those that are malformed: a text  *)
(* whose braces do not match, a file that holds such a text, and a word     *)
(* that is neither JSON nor the name of a file.                             *)
Documents ==
    IF cmd \in {"domain_create", "domain_update"}
    THEN {args.issue, args.transfer, args.manage} \ {Default}
    ELSE IF cmd \in {"group_create", "group_update"} THEN {args.json}
    ELSE IF cmd \in {"sign", "push_transaction"} THEN {args.transaction}
    ELSE IF cmd = "push_transactions" THEN {args.transactions}
    ELSE {}
MalformedDocuments == {Unclosed, BadFile, NoSuchFile}
ParseFormatErrors == {"permission_type_exception", "group_type_exception",
                      "transaction_type_exception", "parse_error_exception"}

Sniffed(str) ==
    LET t == SkipBlanks(str, {" ", "\t", "\n"})
    IN  IF t # <<>> /\ Head(t) \in {"{", "["} THEN from_string(str)
        ELSE IF is_regular_file(str) THEN from_string(FileText(str))
        ELSE Thrown("no such file")

(* C18 for the group commands and the permissions: what the command built   *)
(* is what the sniffed document denotes.                                    *)
C18_SniffingOfGroupsAndPermissions ==
    /\ (cmd \in {"group_create", "group_update"} /\ CallbackRan
          /\ exc.type # "assert_exception") =>
          IF Sniffed(args.json).ok /\ is_object(Sniffed(args.json).value)
          THEN Built /\ trx.actions[1].data.group = as_group(Sniffed(args.json).value)
          ELSE exc.type = "group_type_exception"
    /\ (cmd \in {"domain_create", "domain_update"} /\ CallbackRan) =>
          IF \A d \in Documents : Sniffed(d).ok /\ is_object(Sniffed(d).value)
          THEN /\ Built
               /\ args.issue # Default =>
                     trx.actions[1].data.issue = as_permission(Sniffed(args.issue).value)
               /\ args.transfer # Default =>
                     trx.actions[1].data.transfer
                        = as_permission(Sniffed(args.transfer).value)
               /\ args.manage # Default =>
                     trx.actions[1].data.manage
                        = as_permission(Sniffed(args.manage).value)
          ELSE exc.type = "permission_type_exception"

(* C18: in the group commands, the permissions and the raw push command     *)
(* alike the document is chosen by content sniffing: the transaction that   *)
(* push transaction submits is the one the sniffed document denotes, and    *)
(* the command fails without a call when there is none.                     *)
C18_ContentSniffing ==
    /\ C18_SniffingOfGroupsAndPermissions
    /\ (cmd = "push_transaction" /\ CallbackRan) =>
          IF Sniffed(args.transaction).ok /\ is_object(Sniffed(args.transaction).value)
          THEN /\ Len(calls) = 1
               /\ calls[1].arg.trx = as_signed_transaction(Sniffed(args.transaction).value)
          ELSE calls = <<>> /\ exc.type # "none"

(* The array of transactions a push transactions was given, inline or as    *)
(* the name of the file that holds it.                                      *)
GivenArray ==
    IF is_regular_file(args.transactions) THEN from_string(FileText(args.transactions))
    ELSE from_string(args.transactions)

(* C19 for an array given inline. *)
C19_BatchedSubmissionInline ==
    (cmd = "push_transactions" /\ CallbackRan /\ args.transactions = InlineArray) =>
        /\ Len(calls) = 1
        /\ calls[1].path = "push_transactions"
        /\ calls[1].arg = GivenArray.value
        /\ ArraySize(calls[1].arg) = 2
        /\ IF calls[1].ok THEN out = <<calls[1].ret>> ELSE out = <<>>

(* C19: a push transactions given an array of transactions, inline or in a  *)
(* file, has issued one remote call, to push_transactions and with the      *)
(* whole array, once its callback has run, and has printed the answer of    *)
(* that call and nothing else.                                              *)
C19_BatchedSubmission ==
    (cmd = "push_transactions" /\ CallbackRan
       /\ GivenArray.ok /\ is_array(GivenArray.value)) =>
        /\ Len(calls) = 1
        /\ calls[1].path = "push_transactions"
        /\ calls[1].arg = GivenArray.value
        /\ IF calls[1].ok THEN out = <<calls[1].ret>> ELSE out = <<>>

(* The keys that are derived from the primary identifier of the command. *)
IdentifierKeys ==
    IF cmd \in {"domain_create", "domain_update", "token_transfer",
                "account_create", "account_update"}
    THEN {name128(args.name)}
    ELSE IF cmd = "token_issue"
    THEN {name128(args.names[i]) : i \in DOMAIN args.names}
    ELSE IF cmd = "account_transfer" THEN {name128(args.from)}
    ELSE IF cmd = "group_update" THEN {GroupId(args.id, args.key)}
    ELSE {group_id_from_group_key(group_key(trx.actions[1].data.group))}

(* C20, as stated: the one action of a structured command has a key derived *)
(* from the primary identifier: the key of the domain name, of a token      *)
(* name, of the account name, or the group id.  name128 and the group ids   *)
(* are one to one, so that two command lines of different identifiers have  *)
(* different keys.                                                          *)
C20_KeyOfIdentifier ==
    Built =>
        /\ Len(trx.actions) = 1
        /\ trx.actions[1].key \in IdentifierKeys

(* C20, amended: the same, except for token issue, whose action has the key *)
(* "issue" whatever the token names are (its domain is the domain given).   *)
C20_KeyOfIdentifierButIssue ==
    Built =>
        /\ Len(trx.actions) = 1
        /\ IF cmd = "token_issue"
           THEN /\ trx.actions[1].key = N128("issue")
                /\ trx.actions[1].domain = name128(args.domain)
           ELSE trx.actions[1].key \in IdentifierKeys

(* Two tokens issued, and a transfer of the token b, both run to the end. *)
C20_Witness ==
    /\ pc = "done" /\ Built /\ exc.type = "none"
    /\ \/ cmd = "token_issue" /\ Len(args.names) = 2
       \/ cmd = "token_transfer" /\ args.name = <<"b">>

(* The hint for the service a call goes to: the wallet service for the two  *)
(* wallet endpoints, the ledger node for every other endpoint.              *)
WalletPaths == {"wallet_public_keys", "wallet_sign_trx"}
ServiceHint(path) ==
    IF path \in WalletPaths THEN <<"Failed to connect to evtwd">>
    ELSE <<"Failed to connect to evtd">>
Unreachable == {i \in 1..Len(calls) : calls[i].outcome = "unreachable"}

(* C21: a remote call that found its service unreachable is the last call   *)
(* of the run, the command fails with connection_exception, and the hint on *)
(* standard error names the service that call went to.                      *)
C21_ConnectionError ==
    \A i \in Unreachable :
        /\ i = Len(calls)
        /\ exc.type = "connection_exception"
        /\ err = ServiceHint(calls[i].path)

(* C21 for the calls other than the reference-block lookup, when the two    *)
(* services have different urls.                                            *)
C21_ConnectionErrorOutsideLookup ==
    \A i \in Unreachable :
        /\ i = Len(calls)
        /\ (calls[i].path # "get_block" /\ url # wallet_url) =>
              /\ exc.type = "connection_exception"
              /\ err = ServiceHint(calls[i].path)

(* What a query prints for the node as it is. *)
QueryOutput ==
    CASE cmd = "get_info" -> <<NodeInfo(head, lib)>>
      [] cmd = "get_block" -> <<[id |-> BlockId(args.block[2])]>>
      [] cmd = "get_transaction" -> <<NodeTransaction(args.id[2])>>
      [] cmd = "get_transactions" ->
            <<NodeTransactions(TransactionsArg, head)>>
            \o [n \in 1..head |-> [seq_num |-> n, id |-> <<"txid", n>>,
                                   expiration |-> BlockTime(n)]]
      [] cmd = "get_domain" -> <<[name |-> args.name]>>
      [] cmd = "get_token" -> <<[domain |-> args.domain, name |-> args.name]>>
      [] cmd = "get_group" ->
            GroupIdPrinted(args.key)
            \o <<[id |-> to_base58(GroupId(args.id, args.key))]>>
      [] cmd = "get_account" -> <<[name |-> args.name]>>

(* The node did not change while the query ran. *)
NodeUnchanged == \A i, j \in 1..Len(calls) : calls[i].ret = calls[j].ret

(* C22: what a query that succeeded has printed is determined by its        *)
(* arguments and by the state of the node, when the node did not change     *)
(* while it ran, so that a second run with the same arguments against the   *)
(* same state prints the same; and no step of the process changes the state *)
(* of the node or of the wallet.                                            *)
C22_QueriesIdempotent ==
    /\ []((cmd \in QueryCommands /\ pc \in {"return", "done"} /\ exc.type = "none"
             /\ NodeUnchanged) => out = QueryOutput)
    /\ [][pc' # pc => UNCHANGED remote]_vars

(* A get transactions that printed two transactions of an unchanged node. *)
C22_Witness ==
    /\ pc = "done" /\ cmd = "get_transactions" /\ exc.type = "none"
    /\ NodeUnchanged /\ Len(out) = 3

(* C26: get transactions calls the node once, and the lines it prints are   *)
(* those of the transactions of the JSON it prints.                         *)
C26_SingleQuery ==
    cmd = "get_transactions" =>
        /\ Cardinality(CallsTo("get_transactions")) <= 1
        /\ (pc \in {"return", "done"} /\ exc.type = "none") =>
              Len(out) = 1 + Len(out[1].transactions)

(* C23: a run of the pipeline has written to standard output only when      *)
(* every call of the steps the flags enable was issued and succeeded and no *)
(* exception was raised; a run in which a call failed or an exception was   *)
(* raised, a submission that failed after the wallet signed included, has   *)
(* written nothing.                                                         *)
C23_OutputOnlyOnSuccess ==
    InPipeline =>
        /\ out # <<>> =>
              /\ Paths = ExpectedOrder
              /\ \A i \in 1..Len(calls) : calls[i].ok
              /\ exc.type = "none"
        /\ (exc.type # "none" \/ \E i \in 1..Len(calls) : ~calls[i].ok) => out = <<>>

(* The wallet signed, the submission failed, and nothing was written. *)
C23_Witness ==
    /\ InPipeline /\ pc = "done"
    /\ \E i \in CallsTo("wallet_sign_trx") : calls[i].ok /\ calls[i].ret.signatures # {}
    /\ Failed("push_transaction")
    /\ out = <<>>

(* The transaction as the assembler handed it to sign_transaction. *)
OnEntry ==
    [expiration |-> calls[1].ret.head_block_time + tx_expiration,
     ref_block |-> calls[2].ret.id,
     actions |-> <<[domain |-> N128("account"), key |-> name128(args.name),
                    data |-> [name |-> name128(args.name),
                              owner |-> <<public_key_type(args.owner[1])>>]]>>,
     signatures |-> {}]

(* C24: when the wallet's key listing, the required-keys query or the       *)
(* signing call of sign_transaction has failed, the transaction is the one  *)
(* sign_transaction was entered with: the expiration and the reference      *)
(* block of the assembler, the action of the command, and no signature.     *)
C24_TransactionKeptOnFailure ==
    (InPipeline /\ \E path \in SignerPaths : Failed(path)) =>
        trx = OnEntry

(* The signing call failed for a transaction that required keys. *)
C24_Witness ==
    /\ InPipeline /\ pc = "done"
    /\ Failed("wallet_sign_trx") /\ required_keys # {}
    /\ trx.signatures = {}

(* The document push transaction is given, and the transaction it denotes. *)
UserDocument ==
    IF args.transaction \in RegularFiles THEN FileText(args.transaction)
    ELSE args.transaction
UserTransaction == as_signed_transaction(from_string(UserDocument).value)

(* C25: push transaction issues no call but the submission, to the node,    *)
(* with the transaction of the user's document: its expiration, reference   *)
(* block, actions and signatures; and it issues that call once when the     *)
(* document is a well-formed object.                                        *)
C25_RawPush ==
    cmd = "push_transaction" =>
        /\ \A i \in 1..Len(calls) :
              /\ i = 1
              /\ calls[i].url = url
              /\ calls[i].path = "push_transaction"
              /\ calls[i].arg = Packed(UserTransaction, "none")
        /\ (CallbackRan /\ from_string(UserDocument).ok
              /\ is_object(from_string(UserDocument).value)) => Len(calls) = 1

(* A push transaction that submitted the transaction of a file and is done. *)
C25_Witness ==
    /\ cmd = "push_transaction" /\ pc = "done"
    /\ args.transaction = ObjectFile
    /\ Len(calls) = 1 /\ calls[1].ok
    /\ calls[1].arg.trx.actions[1].data = FileText(ObjectFile)

(* The id a group command is to use for what it was given. *)
IdOfKey(key) == <<"group_id", "key", <<"public_key", key>>>>
IdOfString(id) == <<"group_id", "base58", id>>
GroupIdUsed ==
    IF cmd = "group_update" THEN trx.actions[1].key
    ELSE calls[1].arg.id[2]
GroupIdIsUsed ==
    \/ cmd = "group_update" /\ Built
    \/ cmd = "get_group" /\ calls # <<>>

(* C27: the group id that group update puts in the key of its action, and   *)
(* that get group looks up, is the one derived from the key when a key is   *)
(* given, with or without an id, and the id given when only an id is given. *)
C27_KeyOverridesId ==
    GroupIdIsUsed =>
        /\ args.key # EmptyString => GroupIdUsed = IdOfKey(args.key)
        /\ (args.key = EmptyString /\ args.id # EmptyString) =>
              GroupIdUsed = IdOfString(args.id)

(* A group update that was given both an id and a key. *)
C27_Witness ==
    /\ cmd = "group_update" /\ Built
    /\ args.id # EmptyString /\ args.key # EmptyString
    /\ trx.actions[1].key = IdOfKey(args.key)

(* The permission a document denotes: the text given, or the content of the *)
(* file it names.                                                           *)
Slots == {"issue", "transfer", "manage"}
SlotDocument(a) == IF a = ObjectFile THEN FileText(a) ELSE a

(* C28: in the action of a domain update, a slot whose argument was left at *)
(* "default" holds no permission, no name, threshold or authorizer being    *)
(* generated for it, and every other slot holds the permission of the       *)
(* document the caller gave for it.                                         *)
C28_OnlySuppliedSlots ==
    (cmd = "domain_update" /\ Built) =>
        \A slot \in Slots :
            IF args[slot] = Default
            THEN /\ trx.actions[1].data[slot].name = EmptyString
                 /\ trx.actions[1].data[slot].authorizers = <<>>
            ELSE trx.actions[1].data[slot] = [json |-> SlotDocument(args[slot])]

(* A domain update with one slot supplied and two left at "default". *)
C28_Witness ==
    /\ cmd = "domain_update" /\ Built
    /\ args.issue = Default /\ args.manage = Default
    /\ args.transfer = ObjectFile
    /\ trx.actions[1].data.transfer = [json |-> FileText(ObjectFile)]
====
